---- MODULE Spec2Model ----
(***************************************************************************)
(* A model of banking-rs: the Cents fixed-point amount (src/src/account.rs) *)
(* and the BankingSystem ledger (src/src/banking_system.rs).                *)
(*                                                                          *)
(* u64 values do not fit TLC's 32-bit integers, so a u64 is modelled as a   *)
(* triple of decimal limbs <<h, m, l>> standing for h*10^18 + m*10^9 + l,   *)
(* and every arithmetic step of the code (checked_add, checked_sub,         *)
(* checked_mul) is computed on the limbs against the real u64::MAX.         *)
(* Texts (amounts) are sequences of one-character strings; account names    *)
(* are strings, of which the code only reads emptiness and equality.        *)
(***************************************************************************)
EXTENDS Integers, Sequences, FiniteSets, TLC

\* ------------------------------------------------------------------ bounds

\* The number of ledger calls in one run of the model.
MaxOps == 3

\* The length of the short texts parsed.
MaxLen == 4

\* The largest of the small Cents values displayed.
MaxCents == 120

\* The number of records in a ledger file loaded.
MaxRecords == 2

\* ------------------------------------------------------------ u64 on limbs

LimbBase == 10^9

Zero == <<0, 0, 0>>

\* u64::MAX = 18446744073709551615
U64_MAX == <<18, 446744073, 709551615>>

\* A small natural number as a limb value.
Small(n) == <<0, 0, n>>

\* x <= y on limb values.
Le(x, y) ==
  \/ x[1] < y[1]
  \/ x[1] = y[1] /\ x[2] < y[2]
  \/ x[1] = y[1] /\ x[2] = y[2] /\ x[3] <= y[3]

\* The exact sum, without any range check.
AddN(x, y) ==
  LET l == x[3] + y[3]
      m == x[2] + y[2] + (l \div LimbBase)
  IN  <<x[1] + y[1] + (m \div LimbBase), m % LimbBase, l % LimbBase>>

\* The exact difference x - y, for y <= x.
SubN(x, y) ==
  LET bl == IF x[3] < y[3] THEN 1 ELSE 0
      l  == x[3] - y[3] + bl * LimbBase
      bm == IF x[2] - bl < y[2] THEN 1 ELSE 0
      m  == x[2] - bl - y[2] + bm * LimbBase
  IN  <<x[1] - bm - y[1], m, l>>

\* The exact product x * k, for k a divisor of LimbBase (10 or 100).
MulN(x, k) ==
  LET cut == LimbBase \div k
  IN  <<x[1] * k + (x[2] \div cut),
        (x[2] % cut) * k + (x[3] \div cut),
        (x[3] % cut) * k>>

\* 2^64 = u64::MAX + 1, and the value a wrapping u64 operation would keep.
TwoTo64 == <<18, 446744073, 709551616>>
Wrap64(x) == IF Le(x, U64_MAX) THEN x ELSE SubN(x, TwoTo64)

None == [ok |-> FALSE]
Some(v) == [ok |-> TRUE, v |-> v]

\* u64::checked_add
checked_add(x, y) ==
  IF Le(AddN(x, y), U64_MAX) THEN Some(AddN(x, y)) ELSE None

\* u64::checked_sub
checked_sub(x, y) ==
  IF Le(y, x) THEN Some(SubN(x, y)) ELSE None

\* u64::checked_mul, for the factors the code uses (10 and 100)
checked_mul(x, k) ==
  IF Le(MulN(x, k), U64_MAX) THEN Some(MulN(x, k)) ELSE None

\* The ? operator on a value r that may have failed (map_err(..)? and
\* ok_or(..)?, account.rs lines 43-47, 76-80, 107-114, 119-127): err when r
\* failed, otherwise the rest of the function, Then, on r's value.
Try(r, err, Then(_)) == IF r.ok THEN Then(r.v) ELSE err

\* --------------------------------------------------------- parsing of text

Digits == {"0", "1", "2", "3", "4", "5", "6", "7", "8", "9"}

DigitVal(c) ==
  CASE c = "0" -> 0 [] c = "1" -> 1 [] c = "2" -> 2 [] c = "3" -> 3
    [] c = "4" -> 4 [] c = "5" -> 5 [] c = "6" -> 6 [] c = "7" -> 7
    [] c = "8" -> 8 [] c = "9" -> 9

\* The digit loop of str::parse::<u64>: each step is result * 10 + digit,
\* both overflow-checked; any character that is not a digit is an error.
RECURSIVE parse_digits(_, _)
parse_digits(ds, acc) ==
  IF ds = <<>> THEN Some(acc)
  ELSE IF Head(ds) \notin Digits THEN None
  ELSE Try(checked_mul(acc, 10), None, LAMBDA m :
       Try(checked_add(m, Small(DigitVal(Head(ds)))), None, LAMBDA a :
       parse_digits(Tail(ds), a)))

\* str::parse::<u64>(): empty text is an error, a lone sign is an error, one
\* leading '+' is accepted and skipped, then digits only, within u64.
parse_u64(s) ==
  IF s = <<>> THEN None
  ELSE IF Len(s) = 1 /\ s[1] \in {"+", "-"} THEN None
  ELSE IF s[1] = "+" THEN parse_digits(Tail(s), Zero)
  ELSE parse_digits(s, Zero)

\* s.contains('.')
contains_period(s) == \E i \in 1..Len(s) : s[i] = "."

\* The position of the last '.', where rsplit_once('.') splits.
last_period(s) ==
  CHOOSE i \in 1..Len(s) :
    s[i] = "." /\ \A j \in (i + 1)..Len(s) : s[j] # "."

OkCents(v) == [ok |-> TRUE, v |-> v]
InvalidAmount(s) == [ok |-> FALSE, kind |-> "InvalidAmount", text |-> s]
AmountOverflow(s) == [ok |-> FALSE, kind |-> "AmountOverflow", text |-> s]

\* from_str on a text without '.': the whole text is the integer part.
from_str_no_decimal(s) ==
  Try(parse_u64(s), InvalidAmount(s), LAMBDA n :
  Try(checked_mul(n, 100), AmountOverflow(s), LAMBDA num :
  OkCents(num)))

\* from_str on a split text without the scaling of a one-digit decimal part.
from_str_has_decimal_unscaled(s, int_part_str, dec_part_str) ==
  Try(IF Len(int_part_str) < 1 THEN Some(Zero) ELSE parse_u64(int_part_str),
      InvalidAmount(s), LAMBDA integer_part :
  IF Len(dec_part_str) < 1 \/ Len(dec_part_str) > 2
  THEN InvalidAmount(s)
  ELSE
  Try(parse_u64(dec_part_str), InvalidAmount(s), LAMBDA parsed_dec :
  Try(checked_mul(integer_part, 100), AmountOverflow(s), LAMBDA scaled :
  Try(checked_add(scaled, parsed_dec), AmountOverflow(s), LAMBDA num :
  OkCents(num)))))

\* from_str on a text split at its last '.'.
from_str_has_decimal(s, int_part_str, dec_part_str) ==
  Try(IF Len(int_part_str) < 1 THEN Some(Zero) ELSE parse_u64(int_part_str),
      InvalidAmount(s), LAMBDA integer_part :
  IF Len(dec_part_str) < 1 \/ Len(dec_part_str) > 2
  THEN InvalidAmount(s)
  ELSE
  Try(parse_u64(dec_part_str), InvalidAmount(s), LAMBDA parsed_dec :
  Try(checked_mul(integer_part, 100), AmountOverflow(s), LAMBDA scaled :
  Try(checked_add(scaled, IF Len(dec_part_str) = 1
                          THEN MulN(parsed_dec, 10)
                          ELSE parsed_dec),
      AmountOverflow(s), LAMBDA num :
  OkCents(num)))))

\* impl FromStr for Cents
from_str(s) ==
  IF ~contains_period(s)
  THEN from_str_no_decimal(s)
  ELSE from_str_has_decimal(s, SubSeq(s, 1, last_period(s) - 1),
                            SubSeq(s, last_period(s) + 1, Len(s)))

\* ------------------------------------------------------- formatting of Cents

DigitChar(n) ==
  CASE n = 0 -> "0" [] n = 1 -> "1" [] n = 2 -> "2" [] n = 3 -> "3"
    [] n = 4 -> "4" [] n = 5 -> "5" [] n = 6 -> "6" [] n = 7 -> "7"
    [] n = 8 -> "8" [] n = 9 -> "9"

\* The decimal digits of a natural number below LimbBase, without padding.
RECURSIVE DecDigits(_)
DecDigits(n) ==
  IF n < 10 THEN <<DigitChar(n)>>
  ELSE Append(DecDigits(n \div 10), DigitChar(n % 10))

\* The last w decimal digits of n, zero-padded on the left.
RECURSIVE PadDigits(_, _)
PadDigits(n, w) ==
  IF w = 0 THEN <<>>
  ELSE Append(PadDigits(n \div 10, w - 1), DigitChar(n % 10))

\* {} of a u64: its decimal digits, no sign, no leading zeros.
u64_to_string(x) ==
  IF x[1] > 0 THEN DecDigits(x[1]) \o PadDigits(x[2], 9) \o PadDigits(x[3], 9)
  ELSE IF x[2] > 0 THEN DecDigits(x[2]) \o PadDigits(x[3], 9)
  ELSE DecDigits(x[3])

\* self.0 / 100 and self.0 % 100
Div100(x) ==
  <<x[1] \div 100,
    (x[1] % 100) * (LimbBase \div 100) + (x[2] \div 100),
    (x[2] % 100) * (LimbBase \div 100) + (x[3] \div 100)>>
Mod100(x) == x[3] % 100

\* Display for Cents with {} in place of {:02}.
to_string_unpadded(cents) ==
  <<"$">> \o u64_to_string(Div100(cents)) \o <<".">>
          \o DecDigits(Mod100(cents))

\* impl Display for Cents: "${}.{:02}" of self.0 / 100 and self.0 % 100
to_string(cents) ==
  <<"$">> \o u64_to_string(Div100(cents)) \o <<".">>
          \o PadDigits(Mod100(cents), 2)

\* ------------------------------------------------------------------ Account

AccountOverdraft(name, balance, withdraw_amount) ==
  [ok |-> FALSE, kind |-> "AccountOverdraft", name |-> name,
   balance |-> balance, withdraw_amount |-> withdraw_amount]
BalanceOverflow(name, deposit_amount) ==
  [ok |-> FALSE, kind |-> "BalanceOverflow", name |-> name,
   deposit_amount |-> deposit_amount]
EmptyAccountName == [ok |-> FALSE, kind |-> "EmptyAccountName"]

\* Account::new without the check of the name.
Account_new_unchecked(name, balance) ==
  Some([name |-> name, balance |-> balance])

\* Account::new
Account_new(name, balance) ==
  IF name = "" THEN EmptyAccountName
  ELSE Some([name |-> name, balance |-> balance])

\* Account::deposit with wrapping_add in place of checked_add.
Account_deposit_wrapping(self, amount) ==
  Some([self EXCEPT !.balance = Wrap64(AddN(self.balance, amount))])

\* Account::deposit refusing a sum of exactly u64::MAX.
Account_deposit_strict(self, amount) ==
  IF AddN(self.balance, amount) = U64_MAX
  THEN BalanceOverflow(self.name, amount)
  ELSE Try(checked_add(self.balance, amount),
           BalanceOverflow(self.name, amount), LAMBDA sum :
       Some([self EXCEPT !.balance = sum]))

\* Account::deposit: the balance is assigned only when checked_add succeeds.
Account_deposit(self, amount) ==
  Try(checked_add(self.balance, amount),
      BalanceOverflow(self.name, amount), LAMBDA sum :
  Some([self EXCEPT !.balance = sum]))

\* Account::withdraw refusing to withdraw the whole balance.
Account_withdraw_strict(self, amount) ==
  IF amount = self.balance
  THEN AccountOverdraft(self.name, self.balance, amount)
  ELSE Try(checked_sub(self.balance, amount),
           AccountOverdraft(self.name, self.balance, amount), LAMBDA rest :
       Some([self EXCEPT !.balance = rest]))

\* Account::withdraw with saturating_sub: it never fails and stops at zero.
Account_withdraw_saturating(self, amount) ==
  IF Le(amount, self.balance)
  THEN Some([self EXCEPT !.balance = SubN(self.balance, amount)])
  ELSE Some([self EXCEPT !.balance = Zero])

\* Account::withdraw: the balance is assigned only when checked_sub succeeds;
\* the error carries the balance read before any assignment.
Account_withdraw(self, amount) ==
  Try(checked_sub(self.balance, amount),
      AccountOverdraft(self.name, self.balance, amount), LAMBDA rest :
  Some([self EXCEPT !.balance = rest]))

\* ------------------------------------------------------------ BankingSystem

DuplicateAccountName(name) ==
  [ok |-> FALSE, kind |-> "DuplicateAccountName", name |-> name]
AccountNotFound(name) ==
  [ok |-> FALSE, kind |-> "AccountNotFound", name |-> name]
\* A failed expect(): the process aborts.
Panic == [ok |-> FALSE, kind |-> "Panic"]
Ok == [ok |-> TRUE]

\* What a call leaves: the ledger and the value it returns.
Outcome(sys, res) == [sys |-> sys, res |-> res]

\* The ? operator inside a ledger call (banking_system.rs lines 47, 61, 63,
\* 73, 75, 86-88, 92, 93): when r failed, the call returns r and leaves the
\* ledger sys; otherwise the call goes on with r's value.
Propagate(r, sys, Then(_)) == IF r.ok THEN Then(r.v) ELSE Outcome(sys, r)

\* expect() inside a ledger call (banking_system.rs lines 98-101): when r
\* failed, the process aborts with the ledger as it is, sys.
Expect(r, sys, Then(_)) == IF r.ok THEN Then(r.v) ELSE Outcome(sys, Panic)

\* The ledger with the account at position i replaced (a write through the
\* &mut Account that get_account_mut returned).
Store(sys, i, account) == [sys EXCEPT ![i] = account]

\* account_exists looking at the last account only.
account_exists_last_only(sys, name) ==
  Len(sys) > 0 /\ sys[Len(sys)].name = name

\* BankingSystem::account_exists
account_exists(sys, name) == \E i \in 1..Len(sys) : sys[i].name = name

\* BankingSystem::get_account_mut: the index of the first account of that
\* name (iter_mut().find), or AccountNotFound.
get_account_mut(sys, name) ==
  IF \E i \in 1..Len(sys) : sys[i].name = name
  THEN Some(CHOOSE i \in 1..Len(sys) :
              /\ sys[i].name = name
              /\ \A j \in 1..(i - 1) : sys[j].name # name)
  ELSE AccountNotFound(name)

\* create parsing the balance before the duplicate check.
create_parse_first(sys, name, balance) ==
  Propagate(from_str(balance), sys, LAMBDA parsed :
  IF \E i \in 1..Len(sys) : sys[i].name = name
  THEN Outcome(sys, DuplicateAccountName(name))
  ELSE Propagate(Account_new(name, parsed), sys, LAMBDA account :
       Outcome(Append(sys, account), Ok)))

\* create putting the new account first in the ledger.
create_at_front(sys, name, balance) ==
  IF \E i \in 1..Len(sys) : sys[i].name = name
  THEN Outcome(sys, DuplicateAccountName(name))
  ELSE Propagate(from_str(balance), sys, LAMBDA parsed :
       Propagate(Account_new(name, parsed), sys, LAMBDA account :
       Outcome(<<account>> \o sys, Ok)))

\* BankingSystem::create: the duplicate check, then the parse of the balance
\* (an argument of Account::new, so evaluated before it), then Account::new.
create(sys, name, balance) ==
  IF account_exists(sys, name)
  THEN Outcome(sys, DuplicateAccountName(name))
  ELSE Propagate(from_str(balance), sys, LAMBDA parsed :
       Propagate(Account_new(name, parsed), sys, LAMBDA account :
       Outcome(Append(sys, account), Ok)))

\* deposit assigning the wrapped sum before it reports the overflow.
deposit_assign_first(sys, name, amount) ==
  Propagate(get_account_mut(sys, name), sys, LAMBDA account :
  Propagate(from_str(amount), sys, LAMBDA parsed :
  Propagate(Account_deposit(sys[account], parsed),
            Store(sys, account,
                  [sys[account] EXCEPT !.balance = Wrap64(AddN(@, parsed))]),
            LAMBDA done :
  Outcome(Store(sys, account, done), Ok))))

\* BankingSystem::deposit
deposit(sys, name, amount) ==
  Propagate(get_account_mut(sys, name), sys, LAMBDA account :
  Propagate(from_str(amount), sys, LAMBDA parsed :
  Propagate(Account_deposit(sys[account], parsed), sys, LAMBDA done :
  Outcome(Store(sys, account, done), Ok))))

\* BankingSystem::withdraw
withdraw(sys, name, amount) ==
  Propagate(get_account_mut(sys, name), sys, LAMBDA account :
  Propagate(from_str(amount), sys, LAMBDA parsed :
  Propagate(Account_withdraw(sys[account], parsed), sys, LAMBDA done :
  Outcome(Store(sys, account, done), Ok))))

\* The end of transfer with the withdrawal on the ledger itself left out.
transfer_commit_forgotten(sys, from, amount) == Outcome(sys, Ok)

\* The end of BankingSystem::transfer: the withdrawal on the ledger itself,
\* after the deposit has been stored; the lookup and the withdrawal are
\* expect()ed.
transfer_commit(sys, from, amount) ==
  Expect(get_account_mut(sys, from), sys, LAMBDA real_from :
  Expect(Account_withdraw(sys[real_from], amount), sys, LAMBDA done :
  Outcome(Store(sys, real_from, done), Ok)))

\* transfer without the trial: the withdrawal is made on the ledger itself
\* first, and the deposit after it.
transfer_withdraw_first(sys, from, to, amount) ==
  Propagate(get_account_mut(sys, from), sys, LAMBDA real_from :
  Propagate(get_account_mut(sys, to), sys, LAMBDA orig_to :
  Propagate(from_str(amount), sys, LAMBDA parsed :
  Propagate(Account_withdraw(sys[real_from], parsed), sys, LAMBDA taken :
  Propagate(Account_deposit(Store(sys, real_from, taken)[orig_to], parsed),
            Store(sys, real_from, taken), LAMBDA deposited :
  Outcome(Store(Store(sys, real_from, taken), orig_to, deposited), Ok))))))

\* transfer with the deposit made on the clone too, and so lost.
transfer_deposit_on_clone(sys, from, to, amount) ==
  Propagate(get_account_mut(sys, from), sys, LAMBDA cloned_from :
  Propagate(get_account_mut(sys, to), sys, LAMBDA cloned_to :
  Propagate(from_str(amount), sys, LAMBDA parsed :
  Propagate(Account_withdraw(sys[cloned_from], parsed), sys, LAMBDA tried :
  Propagate(Account_deposit(sys[cloned_to], parsed), sys, LAMBDA deposited :
  Expect(Account_withdraw(sys[cloned_from], parsed), sys, LAMBDA done :
  Outcome(Store(sys, cloned_from, done), Ok)))))))

\* transfer making the deposit before the trial withdrawal.
transfer_deposit_before_trial(sys, from, to, amount) ==
  Propagate(get_account_mut(sys, from), sys, LAMBDA cloned_from :
  Propagate(get_account_mut(sys, to), sys, LAMBDA orig_to :
  Propagate(from_str(amount), sys, LAMBDA parsed :
  Propagate(Account_deposit(sys[orig_to], parsed), sys, LAMBDA deposited :
  Propagate(Account_withdraw(sys[cloned_from], parsed), sys, LAMBDA tried :
  transfer_commit(Store(sys, orig_to, deposited), from, parsed))))))

\* transfer trying the withdrawal on the ledger itself, after the deposit,
\* instead of on a clone taken before it.
transfer_trial_on_ledger(sys, from, to, amount) ==
  Propagate(get_account_mut(sys, from), sys, LAMBDA cloned_from :
  Propagate(get_account_mut(sys, to), sys, LAMBDA orig_to :
  Propagate(from_str(amount), sys, LAMBDA parsed :
  Propagate(Account_deposit(sys[orig_to], parsed), sys, LAMBDA deposited :
  Propagate(Account_withdraw(Store(sys, orig_to, deposited)[cloned_from],
                             parsed), sys, LAMBDA tried :
  transfer_commit(Store(sys, orig_to, deposited), from, parsed))))))

\* transfer without the trial withdrawal on the clone.
transfer_no_trial(sys, from, to, amount) ==
  Propagate(get_account_mut(sys, from), sys, LAMBDA cloned_from :
  Propagate(get_account_mut(sys, to), sys, LAMBDA orig_to :
  Propagate(from_str(amount), sys, LAMBDA parsed :
  Propagate(Account_deposit(sys[orig_to], parsed), sys, LAMBDA deposited :
  transfer_commit(Store(sys, orig_to, deposited), from, parsed)))))

\* BankingSystem::transfer: the withdrawal is tried on a clone of the ledger,
\* the deposit is made on the ledger itself, and the withdrawal is then made
\* on the ledger itself.
transfer(sys, from, to, amount) ==
  Propagate(get_account_mut(sys, from), sys, LAMBDA cloned_from :
  Propagate(get_account_mut(sys, to), sys, LAMBDA orig_to :
  Propagate(from_str(amount), sys, LAMBDA parsed :
  Propagate(Account_withdraw(sys[cloned_from], parsed), sys, LAMBDA tried :
  Propagate(Account_deposit(sys[orig_to], parsed), sys, LAMBDA deposited :
  transfer_commit(Store(sys, orig_to, deposited), from, parsed))))))

\* ------------------------------------------------------- the calls modelled

\* Account names a caller passes: the empty name and two others.
Names == {"", "a", "b"}

\* Amount texts a caller passes, with what from_str makes of each.
T_zero == <<"0">>                                    \* 0
T_half == <<".", "5">>                               \* 50
T_one  == <<"1">>                                    \* 100
T_max  == <<"1", "8", "4", "4", "6", "7", "4", "4", "0", "7", "3", "7", "0",
            "9", "5", "5", "1", "6", ".", "1", "5">>  \* u64::MAX
T_over == <<"1", "8", "4", "4", "6", "7", "4", "4", "0", "7", "3", "7", "0",
            "9", "5", "5", "1", "7">>                 \* AmountOverflow
T_bad  == <<"-", "2">>                               \* InvalidAmount

AmountTexts == {T_zero, T_half, T_one, T_max, T_over, T_bad}

\* ---------------------------------------------------------------- the state

VARIABLES
  accounts,   \* BankingSystem.0, the Vec<Account>
  result,     \* what the last call returned
  call,       \* the last call: its operation and arguments
  before,     \* the ledger as it was when the last call began
  exact,      \* per account, its balance in unbounded arithmetic
  nops        \* the number of calls made

vars == <<accounts, result, call, before, exact, nops>>

\* BankingSystem(Vec::new())
Init ==
  /\ accounts = <<>>
  /\ result = Ok
  /\ call = [op |-> "none"]
  /\ before = <<>>
  /\ exact = <<>>
  /\ nops = 0

\* The first position of an account of that name in the ledger.
Position(sys, name) ==
  CHOOSE i \in 1..Len(sys) :
    sys[i].name = name /\ \A j \in 1..(i - 1) : sys[j].name # name

\* The value of an amount text that parses.
Amount(text) == from_str(text).v

\* bs.create(name, amount)
Create ==
  /\ nops < MaxOps
  /\ \E name \in Names, amount \in AmountTexts :
       \E out \in {create(accounts, name, amount)} :
         /\ accounts' = out.sys
         /\ result' = out.res
         /\ call' = [op |-> "create", name |-> name, amount |-> amount]
         /\ exact' = IF out.res.ok THEN Append(exact, Amount(amount))
                     ELSE exact
  /\ before' = accounts
  /\ nops' = nops + 1

\* bs.deposit(name, amount)
Deposit ==
  /\ nops < MaxOps
  /\ \E name \in Names, amount \in AmountTexts :
       \E out \in {deposit(accounts, name, amount)} :
         /\ accounts' = out.sys
         /\ result' = out.res
         /\ call' = [op |-> "deposit", name |-> name, amount |-> amount]
         /\ exact' = IF out.res.ok
                     THEN [exact EXCEPT ![Position(accounts, name)] =
                                          AddN(@, Amount(amount))]
                     ELSE exact
  /\ before' = accounts
  /\ nops' = nops + 1

\* bs.withdraw(name, amount)
Withdraw ==
  /\ nops < MaxOps
  /\ \E name \in Names, amount \in AmountTexts :
       \E out \in {withdraw(accounts, name, amount)} :
         /\ accounts' = out.sys
         /\ result' = out.res
         /\ call' = [op |-> "withdraw", name |-> name, amount |-> amount]
         /\ exact' = IF out.res.ok
                     THEN [exact EXCEPT ![Position(accounts, name)] =
                                          SubN(@, Amount(amount))]
                     ELSE exact
  /\ before' = accounts
  /\ nops' = nops + 1

\* The exact balances after both legs of a transfer: the deposit to the
\* account at g, then the withdrawal from the account at f.
ExactTransfer(ex, f, g, amount) ==
  [[ex EXCEPT ![g] = AddN(@, amount)] EXCEPT ![f] = SubN(@, amount)]

\* bs.transfer(from, to, amount)
Transfer ==
  /\ nops < MaxOps
  /\ \E from \in Names, to \in Names, amount \in AmountTexts :
       \E out \in {transfer(accounts, from, to, amount)} :
         /\ accounts' = out.sys
         /\ result' = out.res
         /\ call' = [op |-> "transfer", from |-> from, to |-> to,
                     amount |-> amount]
         /\ exact' = IF out.res.ok
                     THEN ExactTransfer(exact, Position(accounts, from),
                                        Position(accounts, to), Amount(amount))
                     ELSE exact
  /\ before' = accounts
  /\ nops' = nops + 1

Next == Create \/ Deposit \/ Withdraw \/ Transfer

Spec == Init /\ [][Next]_vars

\* ------------------------------------------- Cents alone: parse and display

\* The characters of the short texts parsed: digits, the separator, both
\* signs and a letter.
ParseAlphabet == {"0", "1", "2", ".", "-", "+", "a"}

\* All texts over ParseAlphabet of length n.
RECURSIVE TextsOfLen(_)
TextsOfLen(n) ==
  IF n = 0 THEN {<<>>}
  ELSE {Append(t, c) : t \in TextsOfLen(n - 1), c \in ParseAlphabet}

\* The digits of u64::MAX and of u64::MAX + 1.
D_u64max == <<"1", "8", "4", "4", "6", "7", "4", "4", "0", "7", "3", "7", "0",
              "9", "5", "5", "1", "6", "1", "5">>
D_2to64  == <<"1", "8", "4", "4", "6", "7", "4", "4", "0", "7", "3", "7", "0",
              "9", "5", "5", "1", "6", "1", "6">>

\* Texts at the edge of the u64 range, and the longer texts of the tests.
BoundaryTexts ==
  { T_max, T_over, D_u64max, D_2to64,
    SubSeq(T_max, 1, 20) \o <<"6">>,          \* u64::MAX + 1 minor units
    SubSeq(T_max, 1, 18),                     \* 184467440737095516
    D_u64max \o <<".", "1">>,
    D_2to64 \o <<".", "1">>,
    SubSeq(D_u64max, 1, 19) \o <<"4", ".", "9">>,
    <<"4", "0", ".", "2", "0">>, <<"5", "0", ".", "9", "9">>,
    <<"0", "0", "0", "4", "0", ".", "2">> }

ParseTexts == UNION {TextsOfLen(n) : n \in 0..MaxLen} \cup BoundaryTexts

\* The Cents values displayed: the small ones and some across the limbs.
DisplayValues ==
  {Small(n) : n \in 0..MaxCents}
    \cup {U64_MAX, SubN(U64_MAX, Small(15)), SubN(U64_MAX, Small(16)),
          <<0, 0, 4023>>, <<0, 0, 999999999>>, <<0, 1, 0>>, <<0, 100, 5>>,
          <<1, 0, 0>>, <<1, 0, 5>>}

\* Cents::from_str(text)
Parse ==
  /\ call.op = "none"
  /\ \E text \in ParseTexts :
       /\ call' = [op |-> "parse", amount |-> text]
       /\ result' = from_str(text)
  /\ UNCHANGED <<accounts, before, exact, nops>>

\* cents.to_string()
Display ==
  /\ call.op = "none"
  /\ \E cents \in DisplayValues :
       /\ call' = [op |-> "display", value |-> cents]
       /\ result' = Some(to_string(cents))
  /\ UNCHANGED <<accounts, before, exact, nops>>

\* Cents::from_str(&cents.to_string())
ParseDisplayed ==
  /\ call.op = "display"
  /\ call' = [op |-> "parse_displayed", value |-> call.value,
              amount |-> result.v]
  /\ result' = from_str(result.v)
  /\ UNCHANGED <<accounts, before, exact, nops>>

\* Cents::from_str(&cents.to_string()[1..]): the displayed text after its
\* first character.
ParseDisplayedAmount ==
  /\ call.op = "display"
  /\ call' = [op |-> "parse_displayed_amount", value |-> call.value,
              amount |-> Tail(result.v)]
  /\ result' = from_str(Tail(result.v))
  /\ UNCHANGED <<accounts, before, exact, nops>>

CentsNext == Parse \/ Display \/ ParseDisplayed \/ ParseDisplayedAmount

CentsSpec == Init /\ [][CentsNext]_vars

\* ------------------------------------------------- loading the ledger file

\* The balance fields of the records: the text of a u64, and a text that is
\* none.
BalanceFields == {<<"1", "0", "0">>, <<"x">>}

\* The records a file may hold: a name field, possibly empty, and a balance
\* field.
LoadRecords == [name : Names, balance : BalanceFields]

\* All sequences of n records.
RECURSIVE RecordsOfLen(_)
RecordsOfLen(n) ==
  IF n = 0 THEN {<<>>}
  ELSE {Append(rs, r) : rs \in RecordsOfLen(n - 1), r \in LoadRecords}

LoadFiles == UNION {RecordsOfLen(n) : n \in 0..MaxRecords}

\* A record that does not deserialize into an Account.
LoadError == [ok |-> FALSE, kind |-> "LoadError"]

\* create_system: every record is deserialized into an Account, in file
\* order; the first record that does not deserialize fails the load; the
\* accounts are collected into the BankingSystem as they are.
create_system(records) ==
  IF \E i \in 1..Len(records) : ~parse_u64(records[i].balance).ok
  THEN Outcome(<<>>, LoadError)
  ELSE Outcome([i \in 1..Len(records) |->
                  [name |-> records[i].name,
                   balance |-> parse_u64(records[i].balance).v]], Ok)

\* let mut bs = create_system()?
Load ==
  /\ call.op = "none"
  /\ \E records \in LoadFiles :
       \E out \in {create_system(records)} :
         /\ accounts' = out.sys
         /\ result' = out.res
         /\ call' = [op |-> "load", records |-> records]
         /\ exact' = [i \in 1..Len(out.sys) |-> out.sys[i].balance]
  /\ before' = <<>>
  /\ nops' = nops

\* main: the ledger is loaded, then one command runs on it.
MainNext ==
  \/ Load
  \/ /\ call.op = "load"
     /\ result.ok
     /\ (Create \/ Deposit \/ Withdraw \/ Transfer)

MainSpec == Init /\ [][MainNext]_vars

\* ------------------------------------------- transfer, statement by statement

\* No transfer is between two of its statements.
Returned == call.op = "transfer" => call.at = "return"

\* The call goes on to the statement at `next`, the one at `passed` done.
GoOn(passed, next) ==
  [call EXCEPT !.at = next, !.passed = @ \cup {passed}]

\* The call returns to its caller with res.
Return(res) ==
  /\ result' = res
  /\ call' = [call EXCEPT !.at = "return"]

\* let mut cloned_system = self.clone();
\* let cloned_from = cloned_system.get_account_mut(from)?;
TransferStart ==
  /\ Returned
  /\ nops < MaxOps
  /\ \E from \in Names, to \in Names, amount \in AmountTexts :
       \E r \in {get_account_mut(accounts, from)} :
         /\ call' = [op |-> "transfer", from |-> from, to |-> to,
                     amount |-> amount,
                     at |-> IF r.ok THEN "to" ELSE "return",
                     passed |-> IF r.ok THEN {"from"} ELSE {},
                     cloned_system |-> accounts,
                     cloned_from |-> IF r.ok THEN r.v ELSE 0,
                     orig_to |-> 0,
                     parsed |-> Zero]
         /\ result' = IF r.ok THEN result ELSE r
  /\ before' = accounts
  /\ nops' = nops + 1
  /\ UNCHANGED <<accounts, exact>>

\* let orig_to = self.get_account_mut(to)?;
TransferFindTo ==
  /\ call.op = "transfer"
  /\ call.at = "to"
  /\ \E r \in {get_account_mut(accounts, call.to)} :
       IF r.ok
       THEN /\ call' = [GoOn("to", "amount") EXCEPT !.orig_to = r.v]
            /\ UNCHANGED result
       ELSE Return(r)
  /\ UNCHANGED <<accounts, before, exact, nops>>

\* let amount = Cents::from_str(amount)?;
TransferParse ==
  /\ call.op = "transfer"
  /\ call.at = "amount"
  /\ \E r \in {from_str(call.amount)} :
       IF r.ok
       THEN /\ call' = [GoOn("amount", "trial") EXCEPT !.parsed = r.v]
            /\ UNCHANGED result
       ELSE Return(r)
  /\ UNCHANGED <<accounts, before, exact, nops>>

\* The trial withdrawal with its result ignored: the call goes on to the
\* deposit whether or not the clone could pay.
TransferTry_unchecked ==
  /\ call.op = "transfer"
  /\ call.at = "trial"
  /\ \E r \in {Account_withdraw(call.cloned_system[call.cloned_from],
                                call.parsed)} :
       /\ call' = IF r.ok
                  THEN [GoOn("trial", "deposit") EXCEPT
                          !.cloned_system = Store(@, call.cloned_from, r.v)]
                  ELSE [call EXCEPT !.at = "deposit"]
       /\ UNCHANGED result
  /\ UNCHANGED <<accounts, before, exact, nops>>

\* cloned_from.withdraw(amount)?;
TransferTry ==
  /\ call.op = "transfer"
  /\ call.at = "trial"
  /\ \E r \in {Account_withdraw(call.cloned_system[call.cloned_from],
                                call.parsed)} :
       IF r.ok
       THEN /\ call' = [GoOn("trial", "deposit") EXCEPT
                          !.cloned_system = Store(@, call.cloned_from, r.v)]
            /\ UNCHANGED result
       ELSE Return(r)
  /\ UNCHANGED <<accounts, before, exact, nops>>

\* orig_to.deposit(amount)?;
TransferDeposit ==
  /\ call.op = "transfer"
  /\ call.at = "deposit"
  /\ \E r \in {Account_deposit(accounts[call.orig_to], call.parsed)} :
       IF r.ok
       THEN /\ accounts' = Store(accounts, call.orig_to, r.v)
            /\ call' = GoOn("deposit", "commit")
            /\ UNCHANGED result
       ELSE /\ Return(r)
            /\ UNCHANGED accounts
  /\ UNCHANGED <<before, exact, nops>>

\* self.get_account_mut(from).expect(..).withdraw(amount).expect(..); Ok(())
TransferCommit ==
  /\ call.op = "transfer"
  /\ call.at = "commit"
  /\ \E out \in {transfer_commit(accounts, call.from, call.parsed)} :
       /\ accounts' = out.sys
       /\ result' = out.res
       /\ call' = IF out.res.ok THEN GoOn("commit", "return")
                  ELSE [call EXCEPT !.at = "return"]
       /\ exact' = IF out.res.ok
                   THEN ExactTransfer(exact, call.cloned_from, call.orig_to,
                                      call.parsed)
                   ELSE exact
  /\ UNCHANGED <<before, nops>>

\* The ledger calls, with transfer run one statement at a time.
StepNext ==
  \/ Returned /\ (Create \/ Deposit \/ Withdraw)
  \/ TransferStart
  \/ TransferFindTo
  \/ TransferParse
  \/ TransferTry
  \/ TransferDeposit
  \/ TransferCommit

StepSpec == Init /\ [][StepNext]_vars

\* ------------------------------------------------- a transfer and its reverse

\* bs.transfer(to, from, amount) called right after bs.transfer(from, to,
\* amount): the same amount text, the two names exchanged. The call record
\* keeps the ledger as it was before the first transfer, and the result of
\* the first transfer.
TransferBack ==
  /\ call.op = "transfer"
  /\ \E out \in {transfer(accounts, call.to, call.from, call.amount)} :
       /\ accounts' = out.sys
       /\ result' = out.res
       /\ call' = [op |-> "transfer_back", from |-> call.to, to |-> call.from,
                   amount |-> call.amount, origin |-> before,
                   first |-> result]
       /\ exact' = IF out.res.ok
                   THEN ExactTransfer(exact, Position(accounts, call.to),
                                      Position(accounts, call.from),
                                      Amount(call.amount))
                   ELSE exact
  /\ before' = accounts
  /\ nops' = nops + 1

\* The ledger calls, a transfer possibly followed by its reverse, which ends
\* the run.
ReverseNext ==
  \/ call.op # "transfer_back" /\ Next
  \/ TransferBack

ReverseSpec == Init /\ [][ReverseNext]_vars

\* ------------------------------------------------------- reading a state

\* A limb value that is a natural number: canonical limbs, none negative.
IsNat(x) ==
  /\ x[1] >= 0
  /\ x[2] \in 0..(LimbBase - 1)
  /\ x[3] \in 0..(LimbBase - 1)

\* The exact sum of all balances of a ledger.
RECURSIVE SumBalances(_)
SumBalances(sys) ==
  IF sys = <<>> THEN Zero
  ELSE AddN(Head(sys).balance, SumBalances(Tail(sys)))

\* The ledgers a and b hold the same names in the same order.
SameNames(a, b) ==
  /\ Len(a) = Len(b)
  /\ \A i \in 1..Len(a) : a[i].name = b[i].name

LastWas(op) == call.op = op

\* The last call was a transfer between two accounts that existed, with an
\* amount text that parses.
TransferRan ==
  /\ LastWas("transfer")
  /\ account_exists(before, call.from)
  /\ account_exists(before, call.to)
  /\ from_str(call.amount).ok

\* The ledger is the ledger before the last call with both legs of the
\* transfer applied, in exact arithmetic: amount added at the position of
\* `to` and taken at the position of `from`.
BothLegsApplied ==
  /\ TransferRan
  /\ SameNames(accounts, before)
  /\ \A i \in 1..Len(before) :
       /\ IsNat(accounts[i].balance)
       /\ AddN(accounts[i].balance,
               IF i = Position(before, call.from) THEN Amount(call.amount)
               ELSE Zero)
          = AddN(before[i].balance,
                 IF i = Position(before, call.to) THEN Amount(call.amount)
                 ELSE Zero)

\* ------------------------------------------------------------------ claims

\* C1: Transfer is all-or-nothing. After every Transfer call either both
\* legs are applied (and the call returned success) or the ledger is exactly
\* the ledger before the call; whenever the call returns an error the ledger
\* is identical to the ledger before it.
C1_TransferAllOrNothing ==
  LastWas("transfer") =>
    /\ result.ok => BothLegsApplied
    /\ ~result.ok => accounts = before

\* A transfer between two different accounts whose trial withdrawal
\* succeeded and whose deposit failed.
C1_Witness ==
  /\ LastWas("transfer")
  /\ ~result.ok
  /\ result.kind = "BalanceOverflow"
  /\ call.from # call.to
  /\ Amount(call.amount) # Zero

\* C2 as stated: whenever Transfer succeeds, `from` holds its balance before
\* minus the amount and `to` holds its balance before plus the amount, for
\* every pair of existing names.
C2_AsStated ==
  (LastWas("transfer") /\ result.ok) =>
    /\ AddN(accounts[Position(before, call.from)].balance, Amount(call.amount))
       = before[Position(before, call.from)].balance
    /\ accounts[Position(before, call.to)].balance
       = AddN(before[Position(before, call.to)].balance, Amount(call.amount))

\* C2, amended: whenever Transfer succeeds between two different accounts,
\* `from` holds exactly its balance before minus the amount and `to` exactly
\* its balance before plus the amount; when from and to name the same
\* account, its balance is what it was.
C2_TransferMovesAmount ==
  (LastWas("transfer") /\ result.ok) =>
    IF call.from # call.to
    THEN /\ AddN(accounts[Position(before, call.from)].balance,
                 Amount(call.amount))
            = before[Position(before, call.from)].balance
         /\ accounts[Position(before, call.to)].balance
            = AddN(before[Position(before, call.to)].balance,
                   Amount(call.amount))
    ELSE accounts[Position(before, call.from)].balance
         = before[Position(before, call.from)].balance

\* A successful transfer of a positive amount between two different accounts.
C2_Witness ==
  /\ LastWas("transfer")
  /\ result.ok
  /\ call.from # call.to
  /\ Amount(call.amount) # Zero
  /\ accounts # before

\* C3: conservation. Every Transfer call, successful or not, leaves the sum
\* of all balances of the ledger unchanged.
C3_TransferConserves ==
  LastWas("transfer") => SumBalances(accounts) = SumBalances(before)

\* A successful transfer that changed two balances of a ledger.
C3_Witness ==
  /\ LastWas("transfer")
  /\ result.ok
  /\ Len(accounts) = 2
  /\ accounts[1].balance # before[1].balance
  /\ accounts[2].balance # before[2].balance

\* C4: after any sequence of calls every balance is an integer in
\* 0..2^64-1 and equals the exact result of the successful operations on it:
\* nothing wrapped, nothing truncated, nothing below zero.
C4_BalancesExact ==
  /\ Len(exact) = Len(accounts)
  /\ \A i \in 1..Len(accounts) :
       /\ IsNat(accounts[i].balance)
       /\ Le(accounts[i].balance, U64_MAX)
       /\ accounts[i].balance = exact[i]

\* A successful deposit that brought a balance to exactly u64::MAX, on a
\* ledger where the same deposit again would overflow.
C4_Witness ==
  /\ LastWas("deposit")
  /\ result.ok
  /\ Amount(call.amount) # Zero
  /\ accounts[Position(before, call.name)].balance = U64_MAX

\* C5: every failing Create, Deposit or Withdraw call leaves the ledger
\* exactly as it was before the call.
C5_FailureLeavesLedger ==
  ((LastWas("create") \/ LastWas("deposit") \/ LastWas("withdraw"))
     /\ ~result.ok)
    => accounts = before

\* A withdrawal refused for overdraft on an account that holds money.
C5_Witness ==
  /\ LastWas("withdraw")
  /\ ~result.ok
  /\ result.kind = "AccountOverdraft"
  /\ result.balance # Zero

\* C6: starting from the empty ledger, after any sequence of calls every
\* account name is non-empty and no two accounts share a name.
C6_NamesUniqueNonEmpty ==
  /\ \A i \in 1..Len(accounts) : accounts[i].name # ""
  /\ \A i, j \in 1..Len(accounts) :
       accounts[i].name = accounts[j].name => i = j

\* A ledger of two accounts on which a create of an existing name was
\* refused.
C6_Witness ==
  /\ Len(accounts) = 2
  /\ LastWas("create")
  /\ ~result.ok
  /\ result.kind = "DuplicateAccountName"

\* C7: Withdraw on an existing account with an amount a that parses succeeds
\* exactly when a <= balance, leaving balance - a; when a > balance it fails
\* with AccountOverdraft carrying the name, the balance at the time of the
\* call, and a.
C7_WithdrawBoundary ==
  (/\ LastWas("withdraw")
   /\ account_exists(before, call.name)
   /\ from_str(call.amount).ok) =>
    IF Le(Amount(call.amount), before[Position(before, call.name)].balance)
    THEN /\ result.ok
         /\ IsNat(accounts[Position(before, call.name)].balance)
         /\ AddN(accounts[Position(before, call.name)].balance,
                 Amount(call.amount))
            = before[Position(before, call.name)].balance
    ELSE result = AccountOverdraft(call.name,
                                   before[Position(before, call.name)].balance,
                                   Amount(call.amount))

\* A withdrawal of the whole, positive balance, leaving zero.
C7_Witness ==
  /\ LastWas("withdraw")
  /\ result.ok
  /\ Amount(call.amount) # Zero
  /\ accounts[Position(before, call.name)].balance = Zero

\* C8: Deposit on an existing account with an amount a that parses succeeds
\* exactly when balance + a <= 2^64-1, leaving exactly balance + a; otherwise
\* it fails with BalanceOverflow carrying the name and a.
C8_DepositBoundary ==
  (/\ LastWas("deposit")
   /\ account_exists(before, call.name)
   /\ from_str(call.amount).ok) =>
    IF Le(AddN(before[Position(before, call.name)].balance,
               Amount(call.amount)), U64_MAX)
    THEN /\ result.ok
         /\ accounts[Position(before, call.name)].balance
            = AddN(before[Position(before, call.name)].balance,
                   Amount(call.amount))
    ELSE result = BalanceOverflow(call.name, Amount(call.amount))

\* A deposit refused because the balance would pass u64::MAX by less than
\* the amount deposited.
C8_Witness ==
  /\ LastWas("deposit")
  /\ ~result.ok
  /\ result.kind = "BalanceOverflow"
  /\ before[Position(before, call.name)].balance # Zero

\* C9 as stated: Create with a zero-length name fails with EmptyAccountName,
\* for every amount text, well-formed or not.
C9_AsStated ==
  (LastWas("create") /\ call.name = "") => result = EmptyAccountName

\* C9, amended: on a ledger that holds no account of the empty name, Create
\* with a zero-length name always fails and leaves the ledger as it was; it
\* fails with EmptyAccountName when the amount text parses, and with the
\* parse error of the amount text (InvalidAmount or AmountOverflow) when it
\* does not.
C9_EmptyNameFails ==
  (LastWas("create") /\ call.name = "") =>
    /\ ~result.ok
    /\ accounts = before
    /\ from_str(call.amount).ok => result = EmptyAccountName
    /\ ~from_str(call.amount).ok => result = from_str(call.amount)

\* A create with the empty name and an amount that parses, refused on a
\* ledger that holds accounts.
C9_Witness ==
  /\ LastWas("create")
  /\ call.name = ""
  /\ from_str(call.amount).ok
  /\ result = EmptyAccountName
  /\ Len(accounts) > 0

\* C10: Create with a name that already exists fails with
\* DuplicateAccountName(name) whatever the amount text: the duplicate-name
\* error takes precedence over InvalidAmount and AmountOverflow.
C10_DuplicateFirst ==
  (LastWas("create") /\ account_exists(before, call.name)) =>
    result = DuplicateAccountName(call.name)

\* A create of an existing name with an amount text that does not parse.
C10_Witness ==
  /\ LastWas("create")
  /\ account_exists(before, call.name)
  /\ ~from_str(call.amount).ok
  /\ result = DuplicateAccountName(call.name)

\* C11: error precedence in Deposit, Withdraw and Transfer. A missing account
\* is reported as AccountNotFound before the amount is parsed (in Transfer
\* `from` before `to`); a parse error of the amount is reported before any
\* balance arithmetic; and a Transfer that would both overdraft `from` and
\* overflow `to` fails with AccountOverdraft.
C11_ErrorPrecedence ==
  /\ (LastWas("deposit") \/ LastWas("withdraw")) =>
       IF ~account_exists(before, call.name)
       THEN result = AccountNotFound(call.name)
       ELSE ~from_str(call.amount).ok => result = from_str(call.amount)
  /\ LastWas("transfer") =>
       IF ~account_exists(before, call.from)
       THEN result = AccountNotFound(call.from)
       ELSE IF ~account_exists(before, call.to)
       THEN result = AccountNotFound(call.to)
       ELSE IF ~from_str(call.amount).ok
       THEN result = from_str(call.amount)
       ELSE (/\ ~Le(Amount(call.amount),
                    before[Position(before, call.from)].balance)
             /\ ~Le(AddN(before[Position(before, call.to)].balance,
                         Amount(call.amount)), U64_MAX))
            => (~result.ok /\ result.kind = "AccountOverdraft")

\* A transfer refused for overdraft although its deposit would overflow too.
C11_Witness ==
  /\ LastWas("transfer")
  /\ ~result.ok
  /\ result.kind = "AccountOverdraft"
  /\ call.from # call.to
  /\ ~Le(AddN(before[Position(before, call.to)].balance,
              Amount(call.amount)), U64_MAX)

\* ------------------------------------------------- the grammar of amounts

IsDigits(s) == \A i \in 1..Len(s) : s[i] \in Digits

\* The positions of the separator in a text.
Periods(s) == {i \in 1..Len(s) : s[i] = "."}

\* The text before the separator (the whole text when there is none) and
\* the text after it, for a text of at most one separator.
IntPart(s) ==
  IF Periods(s) = {} THEN s
  ELSE SubSeq(s, 1, (CHOOSE p \in Periods(s) : TRUE) - 1)
DecPart(s) ==
  IF Periods(s) = {} THEN <<>>
  ELSE SubSeq(s, (CHOOSE p \in Periods(s) : TRUE) + 1, Len(s))

\* The decimal grammar: digits with no separator, or optional digits, one
\* separator and one or two digits.
InGrammar(s) ==
  IF Periods(s) = {} THEN Len(s) >= 1 /\ IsDigits(s)
  ELSE /\ Cardinality(Periods(s)) = 1
       /\ IsDigits(IntPart(s))
       /\ IsDigits(DecPart(s))
       /\ Len(DecPart(s)) \in {1, 2}

\* The number a digit text denotes, exactly; the empty text denotes 0.
RECURSIVE NatOf(_)
NatOf(ds) ==
  IF ds = <<>> THEN Zero
  ELSE AddN(MulN(NatOf(SubSeq(ds, 1, Len(ds) - 1)), 10),
            Small(DigitVal(ds[Len(ds)])))

\* The minor units a decimal part denotes: d0 for one digit d.
DecUnits(ds) ==
  IF ds = <<>> THEN Zero
  ELSE IF Len(ds) = 1 THEN Small(DigitVal(ds[1]) * 10)
  ELSE Small(DigitVal(ds[1]) * 10 + DigitVal(ds[2]))

\* integer_part * 100 + decimal_part of a text of the grammar, exactly.
ExactCents(s) == AddN(MulN(NatOf(IntPart(s)), 100), DecUnits(DecPart(s)))

\* The texts C12 says Parse rejects.
Rejectable(s) ==
  \/ s = <<>>
  \/ s = <<".">>
  \/ \E i \in 1..Len(s) : s[i] = "-"
  \/ Cardinality(Periods(s)) > 1
  \/ Periods(s) # {} /\ s[Len(s)] = "."
  \/ \E p \in Periods(s) : Len(s) - p > 2
  \/ \E i \in 1..Len(s) : s[i] \notin Digits \cup {"."}

\* C12 as stated: Parse rejects with InvalidAmount every text that is empty,
\* is only the separator, contains a minus sign, contains more than one
\* '.', has no digit or more than two digits after the '.', or contains any
\* character other than the digits and a single '.' (such as a leading '+').
C12_AsStated ==
  (LastWas("parse") /\ Rejectable(call.amount))
    => result = InvalidAmount(call.amount)

\* C13: for every text of the decimal grammar that is in range, Parse
\* returns integer_part * 100 + decimal_part minor units, an omitted integer
\* part and an absent decimal part counting as 0 and a one-digit decimal
\* part d as d * 10.
C13_ParseValue ==
  (/\ LastWas("parse")
   /\ InGrammar(call.amount)
   /\ Le(ExactCents(call.amount), U64_MAX))
    => result = OkCents(ExactCents(call.amount))

\* ".1" parsed to 10 minor units: no integer part, a one-digit decimal part.
C13_Witness ==
  /\ LastWas("parse")
  /\ call.amount = <<".", "1">>
  /\ result = OkCents(Small(10))

\* C14 as stated: for every text of the decimal grammar, Parse succeeds
\* exactly when integer_part * 100 + decimal_part <= 2^64-1, and in every
\* other case it fails with AmountOverflow, never with InvalidAmount, also
\* when the integer-part digits alone denote a number above 2^64-1.
C14_AsStated ==
  (LastWas("parse") /\ InGrammar(call.amount)) =>
    IF Le(ExactCents(call.amount), U64_MAX)
    THEN result.ok
    ELSE result = AmountOverflow(call.amount)

\* C15 as stated: for every minor-unit value v, the text that the Display of
\* Cents produces for v parses back to exactly v.
C15_AsStated ==
  LastWas("parse_displayed") => result = OkCents(call.value)

\* C15, amended: for every minor-unit value v in 0..2^64-1, the text that
\* the Display of Cents produces for v, without its leading '$', parses back
\* to exactly v.
C15_RoundTrip ==
  LastWas("parse_displayed_amount") => result = OkCents(call.value)

\* u64::MAX displayed, stripped of the '$' and parsed back.
C15_Witness ==
  /\ LastWas("parse_displayed_amount")
  /\ call.value = U64_MAX
  /\ call.amount = T_max
  /\ result = OkCents(U64_MAX)

\* Every name of the ledger is non-empty and no two accounts share a name.
NamesValid(sys) ==
  /\ \A i \in 1..Len(sys) : sys[i].name # ""
  /\ \A i, j \in 1..Len(sys) : sys[i].name = sys[j].name => i = j

\* C16 as stated: loading the ledger from persisted records never yields a
\* ledger with a duplicate or an empty name: either the load is rejected or
\* the ledger loaded has unique, non-empty names.
C16_AsStated ==
  LastWas("load") => (~result.ok \/ NamesValid(accounts))

\* The kinds of error a ledger call returns to its caller.
TypedErrors ==
  {"EmptyAccountName", "DuplicateAccountName", "AccountNotFound",
   "InvalidAmount", "AmountOverflow", "BalanceOverflow", "AccountOverdraft"}

\* C17: no ledger call ever crashes. Every Create, Deposit, Withdraw and
\* Transfer returns success or one of the typed errors; the withdrawal that
\* ends Transfer, and its lookup, always succeed once the trial withdrawal
\* and the deposit have, so the expect() is never hit, also when from and to
\* name the same account.
C17_NoCrash ==
  (LastWas("create") \/ LastWas("deposit") \/ LastWas("withdraw")
     \/ LastWas("transfer"))
    => (result.ok \/ result.kind \in TypedErrors)

\* A successful transfer of a positive amount from an account to itself: the
\* last withdrawal ran on the balance the deposit had just raised.
C17_Witness ==
  /\ LastWas("transfer")
  /\ result.ok
  /\ call.from = call.to
  /\ Amount(call.amount) # Zero

\* A transfer run statement by statement ends as the whole call does.
StepsAreTransfer ==
  (call.op = "transfer" /\ call.at = "return")
    => Outcome(accounts, result)
         = transfer(before, call.from, call.to, call.amount)

\* C18: transfer follows the order snapshot, trial, commit. The ledger is
\* untouched until the trial withdrawal on the snapshot of `from` has
\* succeeded, so the real `to` account is changed only after it; the real
\* `from` account is changed only after the real deposit to `to` has
\* succeeded; and a transfer that returns an error has left the real `from`
\* account as it was.
C18_SnapshotTrialCommit ==
  call.op = "transfer" =>
    /\ "trial" \notin call.passed => accounts = before
    /\ ("from" \in call.passed /\ "deposit" \notin call.passed)
         => accounts[call.cloned_from] = before[call.cloned_from]
    /\ ("to" \in call.passed /\ accounts[call.orig_to] # before[call.orig_to])
         => "trial" \in call.passed
    /\ (call.at = "return" /\ ~result.ok /\ account_exists(before, call.from))
         => accounts[Position(before, call.from)]
              = before[Position(before, call.from)]

\* Between the deposit and the last withdrawal of a transfer between two
\* accounts: the trial and the deposit have succeeded, `to` holds the
\* amount, and `from` is still as it was.
C18_Witness ==
  /\ call.op = "transfer"
  /\ call.at = "commit"
  /\ call.from # call.to
  /\ call.parsed # Zero
  /\ {"trial", "deposit"} \subseteq call.passed
  /\ accounts[call.orig_to] # before[call.orig_to]
  /\ accounts[call.cloned_from] = before[call.cloned_from]

\* The names a call gives: one for create, deposit and withdraw, two for
\* transfer.
NamedInCall ==
  IF LastWas("transfer") THEN {call.from, call.to} ELSE {call.name}

\* C19: frame. Deposit, Withdraw and Transfer never change the number, the
\* order or the names of the accounts, nor the balance of an account the call
\* does not name. A successful Create leaves every account there was as it
\* was, name, balance and position, and appends exactly one account, at the
\* end, of the name given and with the parsed amount as its balance. So no
\* call removes or reorders accounts.
C19_Frame ==
  /\ (LastWas("deposit") \/ LastWas("withdraw") \/ LastWas("transfer"))
       => /\ SameNames(accounts, before)
          /\ \A i \in 1..Len(before) :
               before[i].name \notin NamedInCall => accounts[i] = before[i]
  /\ (LastWas("create") /\ result.ok)
       => /\ Len(accounts) = Len(before) + 1
          /\ SubSeq(accounts, 1, Len(before)) = before
          /\ accounts[Len(accounts)] =
               [name |-> call.name, balance |-> Amount(call.amount)]
  /\ (LastWas("create") /\ ~result.ok) => accounts = before
  /\ ~LastWas("none")
       => /\ Len(accounts) >= Len(before)
          /\ \A i \in 1..Len(before) : accounts[i].name = before[i].name

\* A successful create of an account with a positive balance on a ledger
\* whose first account holds a positive balance.
C19_Witness ==
  /\ LastWas("create")
  /\ result.ok
  /\ Len(before) >= 1
  /\ before[1].balance # Zero
  /\ Amount(call.amount) # Zero

\* C20: a transfer from an existing account to itself never changes the
\* balance of that account, nor of any other, whether it succeeds or fails.
\* It fails with AccountOverdraft when the amount is more than the balance,
\* and with BalanceOverflow when the amount is at most the balance but the
\* balance plus the amount is more than 2^64 - 1.
C20_SelfTransfer ==
  (LastWas("transfer") /\ call.from = call.to
     /\ account_exists(before, call.from))
    => /\ accounts = before
       /\ from_str(call.amount).ok =>
            LET balance == before[Position(before, call.from)].balance
                amount == Amount(call.amount)
            IN /\ ~Le(amount, balance)
                    => (~result.ok /\ result.kind = "AccountOverdraft")
               /\ (Le(amount, balance) /\ ~Le(AddN(balance, amount), U64_MAX))
                    => (~result.ok /\ result.kind = "BalanceOverflow")
               /\ (Le(amount, balance) /\ Le(AddN(balance, amount), U64_MAX))
                    => result.ok

\* A transfer from an account to itself that fails with BalanceOverflow: the
\* amount is covered by the balance, but the deposit would pass 2^64 - 1.
C20_Witness ==
  /\ LastWas("transfer")
  /\ call.from = call.to
  /\ account_exists(before, call.from)
  /\ ~result.ok
  /\ result.kind = "BalanceOverflow"
  /\ Amount(call.amount) # Zero

\* C21: reversibility. When a transfer between two different existing
\* accounts has succeeded, the transfer of the same amount text the other way
\* round, called right after it, succeeds too and leaves the ledger exactly
\* as it was before the first transfer.
C21_Reversible ==
  (LastWas("transfer_back") /\ call.first.ok /\ call.from # call.to)
    => /\ result.ok
       /\ accounts = call.origin

\* A transfer of a positive amount between two different accounts that
\* succeeded and changed the ledger, followed by its reverse.
C21_Witness ==
  /\ LastWas("transfer_back")
  /\ call.first.ok
  /\ call.from # call.to
  /\ Amount(call.amount) # Zero
  /\ before # call.origin
  /\ result.ok

====
